---- MODULE Spec2Model ----
(***************************************************************************)
(* QuickFuck: the two Brainfuck engines of lib/quickfuck.hpp               *)
(* (Brainfuck::DynamicInterpreter, the growable tape, and                  *)
(* Brainfuck::PerformanceInterpreter, the bounded tape) and the            *)
(* command-line DynamicInterpreter of src/qfmain.cpp, as state machines.   *)
(*                                                                         *)
(* Representation.                                                         *)
(*  - A std::string is a sequence of bytes 0..255; the source is a         *)
(*    sequence of one-character strings.                                   *)
(*  - A size_t (position, active_cell) is kept as the representative of    *)
(*    its residue class modulo 2^64 nearest to zero, so -1 stands for      *)
(*    SIZE_MAX (what active_cell-- yields at 0, and what cells.size() - 1  *)
(*    yields for an empty vector).                                         *)
(*  - A cell of the library's growable engine is a plain char: whether     *)
(*    that is signed is a property of the build (charSigned).  A cell of   *)
(*    the bounded engine is an unsigned char, a cell of the command-line   *)
(*    growable engine is an int.                                           *)
(*  - Undefined behaviour (a cell index outside the tape, pop()/top() of   *)
(*    an empty std::stack, code[position] beyond the end of the string)    *)
(*    is a choice between the process dying (mode = "crashed") and the     *)
(*    access going through on memory that is not part of the tape: such a  *)
(*    read yields some value of Garbage, such a write is lost.             *)
(*                                                                         *)
(* Specifications.                                                         *)
(*  - Spec: every call of the host, in any order, on short sources.        *)
(*  - SpecInput, SpecNoop: the same calls on sources that read more than   *)
(*    once, and on sources without instructions.                           *)
(*  - SpecLoop, SpecOpen, SpecGrow, SpecDot, SpecNest: a run to completion *)
(*    as the first call made on the engine, on families of sources.        *)
(*  - SpecPair: a growable and a bounded engine handed the same calls.     *)
(***************************************************************************)
EXTENDS Integers, Sequences, FiniteSets, TLC

VARIABLES
    engine,       \* "dynamic" | "performance" (quickfuck.hpp) | "cli" (qfmain.cpp)
    charSigned,   \* whether plain char is signed in this build
    size,         \* PerformanceInterpreter::size (0 for the other engines)
    code,         \* Interpreter::code
    position,     \* Interpreter::position (the cursor)
    active_cell,  \* Interpreter::active_cell (the cell pointer)
    cells,        \* DynamicInterpreter::cells / PerformanceInterpreter::bytes
    loops,        \* Interpreter::loops, top of the stack last
    input,        \* Interpreter::input
    output,       \* Interpreter::output (qfmain.cpp: what went to std::cout)
    mode,         \* "idle": between host calls; "running": inside interpret();
                  \* "crashed": the process died of undefined behaviour
    lastOp,       \* the host call made last
    result,       \* how the last step()/interpret() ended: "ok" | "InputExhausted" |
                  \* "crashed", or "running" inside interpret()
    arg,          \* the parameter `in` of the interpret(in) call in progress
                  \* (empty for interpret(), and once the call has ended)
    maxPtr,       \* history: largest active_cell seen since the last reset()
    wasReset,     \* history: reset() has run on this engine (by itself or in interpret)
    ref,          \* history: how the run ended that was the first call made on
                  \* the just-constructed engine (its input, output, tape)
    twin          \* a PerformanceInterpreter the host drives side by side with
                  \* this engine (none in the specifications of one engine)

vars == << engine, charSigned, size, code, position, active_cell, cells, loops,
           input, output, mode, lastOp, result, arg, maxPtr, wasReset, ref, twin >>

engineState == << position, active_cell, cells, loops, input, output >>

-----------------------------------------------------------------------------
(* Bounds of the model. *)

\* longest string the host stages with setInput/addInput/interpret(in)
MaxInput == 2
\* |active_cell| explored
MaxCell == 5
\* deepest loop stack explored
MaxLoops == 2
\* longest output explored
MaxOut == 2
\* how far beyond code.length() the cursor is followed
MaxOver == 1
\* the largest cursor the model follows a garbage jump to
MaxPos == 8
\* largest width handed to PerformanceInterpreter's constructor
MaxWidth == 2
\* longest source made of characters that are no instruction
MaxSrc == 2
\* longest source that leaves brackets open
MaxOpen == 3
\* longest source of pointer moves and increments
MaxGrow == 3
\* longest of the short sources that write
MaxDot == 2
\* longest of the generated sources with balanced brackets
MaxNest == 5

\* unsigned char / char have 8 bits
CellMod == 256
CharMax == 127

\* bytes the host puts into input strings: 'A', and one with the top bit set
InputBytes == {65, 200}
\* what a read of memory outside the tape may yield
Garbage == {0, 1}

\* what a read of memory beyond the end of the source may yield: a character
\* that is no instruction, and an instruction
GarbageChars == {"NUL", "+"}
\* what top() of an empty stack may yield: a small and a large cursor
GarbageCursors == {0, MaxPos}

Instr == {"+", "-", "<", ">", "[", "]", ".", ","}

\* the sources the engines are loaded with
Programs ==
    { <<",", ".">>, <<">", ",">>, <<"]">>, <<"+", "]">>, <<"[">>,
      <<">", "+">>, <<"<", "+">>, <<"-", ".">> }

RECURSIVE SeqsUpTo(_, _)
SeqsUpTo(S, n) ==
    IF n = 0 THEN {<< >>}
    ELSE LET shorter == SeqsUpTo(S, n - 1)
         IN  shorter \cup {Append(s, b) : s \in {t \in shorter : Len(t) = n - 1}, b \in S}

Strings == SeqsUpTo(InputBytes, MaxInput)

Zeros(n) == [i \in 1..n |-> 0]

-----------------------------------------------------------------------------
(* Cell arithmetic. *)

\* an int converted to char: modular, into -128..127 when char is signed
ToChar(x) ==
    IF charSigned
    THEN ((x + CharMax + 1) % CellMod) - (CharMax + 1)
    ELSE x % CellMod

\* an int converted to unsigned char
ToUChar(x) == x % CellMod

\* the value a cell keeps when x is assigned to it
ToCell(x) ==
    IF engine = "dynamic" THEN ToChar(x)
    ELSE IF engine = "performance" THEN ToUChar(x)
    ELSE x

\* the char input[0] as the int the assignment to a cell starts from
CharValue(b) == IF charSigned /\ b > CharMax THEN b - CellMod ELSE b

\* (char)cell appended to a string
ByteOf(c) == c % CellMod

-----------------------------------------------------------------------------
(* One instruction: the switch of step() (quickfuck.hpp) and of the loop   *)
(* body of interpret() (qfmain.cpp).                                       *)

Max(a, b) == IF a >= b THEN a ELSE b

\* active_cell indexes a cell of the tape
Valid == active_cell >= 0 /\ active_cell < Len(cells)

\* code[position] is defined: std::string::operator[] yields '\0' at length()
Fetchable == position >= 0 /\ position <= Len(code)

\* the character the switch sees ("NUL" stands for '\0')
Fetch ==
    IF position >= 0 /\ position < Len(code) THEN {code[position + 1]}
    ELSE IF position = Len(code) THEN {"NUL"}
    ELSE GarbageChars

\* what reading cells[active_cell] may yield
CellVals == IF Valid THEN {cells[active_cell + 1]} ELSE Garbage

\* the tape after cells[active_cell] = v
Store(v) ==
    IF Valid THEN [cells EXCEPT ![active_cell + 1] = ToCell(v)] ELSE cells

\* position++ at the end of the switch, from cursor p
Advance(p) == position' = p + 1

\* case '+': cells[active_cell]++
ExecPlus ==
    /\ \E v \in CellVals : cells' = Store(v + 1)
    /\ Advance(position)
    /\ UNCHANGED << active_cell, loops, input, output >>

\* case '-': cells[active_cell]--
ExecMinus ==
    /\ \E v \in CellVals : cells' = Store(v - 1)
    /\ Advance(position)
    /\ UNCHANGED << active_cell, loops, input, output >>

\* case '<': guarded in the growable engines, unguarded in the bounded one
ExecLeft ==
    /\ active_cell > -MaxCell
    /\ active_cell' = IF engine = "performance" \/ active_cell > 0
                      THEN active_cell - 1 ELSE active_cell
    /\ Advance(position)
    /\ UNCHANGED << cells, loops, input, output >>

\* ExecRight with the test of the last index left out: every '>' appends
ExecRightAlwaysAppends ==
    /\ active_cell < MaxCell
    /\ cells' = IF engine # "performance" THEN Append(cells, 0) ELSE cells
    /\ active_cell' = active_cell + 1
    /\ Advance(position)
    /\ UNCHANGED << loops, input, output >>

\* case '>': the growable engines append a cell when at the last index
ExecRight ==
    /\ active_cell < MaxCell
    /\ cells' = IF engine # "performance" /\ active_cell = Len(cells) - 1
                THEN Append(cells, 0) ELSE cells
    /\ active_cell' = active_cell + 1
    /\ Advance(position)
    /\ UNCHANGED << loops, input, output >>

\* ExecOpen with the push left out
ExecOpenNoPush ==
    /\ Len(loops) < MaxLoops
    /\ Advance(position)
    /\ UNCHANGED << active_cell, cells, loops, input, output >>

\* case '[': loops.push(position)
ExecOpen ==
    /\ Len(loops) < MaxLoops
    /\ loops' = Append(loops, position)
    /\ Advance(position)
    /\ UNCHANGED << active_cell, cells, input, output >>

\* ExecClose with the jump landing on the '[' itself, which is then executed
\* and pushed again
ExecCloseReenters ==
    /\ \E v \in CellVals :
          IF v = 0
          THEN /\ loops' = IF loops = << >> THEN loops
                           ELSE SubSeq(loops, 1, Len(loops) - 1)
               /\ Advance(position)
          ELSE /\ loops' = loops
               /\ IF loops = << >>
                  THEN \E p \in GarbageCursors : Advance(p)
                  ELSE Advance(loops[Len(loops)] - 1)
    /\ UNCHANGED << active_cell, cells, input, output >>

\* ExecClose with loops.pop() on the way back as well
ExecClosePopsOnJump ==
    /\ \E v \in CellVals :
          /\ loops' = IF loops = << >> THEN loops
                      ELSE SubSeq(loops, 1, Len(loops) - 1)
          /\ IF v = 0
             THEN Advance(position)
             ELSE IF loops = << >>
                  THEN \E p \in GarbageCursors : Advance(p)
                  ELSE Advance(loops[Len(loops)])
    /\ UNCHANGED << active_cell, cells, input, output >>

\* ExecClose with the pop left out: the loop is left with its '[' still on
\* the stack
ExecCloseNoPop ==
    /\ \E v \in CellVals :
          IF v = 0
          THEN Advance(position)
          ELSE IF loops = << >>
               THEN \E p \in GarbageCursors : Advance(p)
               ELSE Advance(loops[Len(loops)])
    /\ UNCHANGED << active_cell, cells, loops, input, output >>

\* case ']': pop when the cell is 0, else position = loops.top().  On an
\* empty stack both are undefined: when the process survives, pop() leaves
\* a stack on which every later access is undefined again, and top()
\* yields some cursor.
ExecClose ==
    /\ \E v \in CellVals :
          IF v = 0
          THEN /\ loops' = IF loops = << >> THEN loops
                           ELSE SubSeq(loops, 1, Len(loops) - 1)
               /\ Advance(position)
          ELSE /\ loops' = loops
               /\ IF loops = << >>
                  THEN \E p \in GarbageCursors : Advance(p)
                  ELSE Advance(loops[Len(loops)])
    /\ UNCHANGED << active_cell, cells, input, output >>

\* ExecDot with the cast to char left out: the cell's int is appended
ExecDotNoCast ==
    /\ Len(output) < MaxOut
    /\ \E v \in CellVals : output' = Append(output, v)
    /\ Advance(position)
    /\ UNCHANGED << active_cell, cells, loops, input >>

\* case '.': output += (char)cells[active_cell]
ExecDot ==
    /\ Len(output) < MaxOut
    /\ \E v \in CellVals : output' = Append(output, ByteOf(v))
    /\ Advance(position)
    /\ UNCHANGED << active_cell, cells, loops, input >>

\* ExecComma reading from the wrong end: the last byte is stored and erased
ExecCommaTakesLast ==
    /\ input # << >>
    /\ cells' = Store(CharValue(input[Len(input)]))
    /\ input' = SubSeq(input, 1, Len(input) - 1)
    /\ Advance(position)
    /\ UNCHANGED << active_cell, loops, output >>

\* case ',' with input at hand: cells[active_cell] = input[0]; input.erase(0, 1)
ExecComma ==
    /\ input # << >>
    /\ cells' = Store(CharValue(Head(input)))
    /\ input' = Tail(input)
    /\ Advance(position)
    /\ UNCHANGED << active_cell, loops, output >>

\* case ',' of qfmain.cpp with an empty buffer: a line of std::cin is
\* appended first; when the buffer stays empty input_buffer[0] is '\0'
ExecCommaStdin ==
    /\ engine = "cli"
    /\ input = << >>
    /\ \E line \in Strings :
          /\ cells' = Store(IF line = << >> THEN 0 ELSE CharValue(Head(line)))
          /\ input' = IF line = << >> THEN line ELSE Tail(line)
    /\ Advance(position)
    /\ UNCHANGED << active_cell, loops, output >>

\* ExecOther with a stray cells[active_cell]++ before the break
ExecOtherTouchesCell ==
    /\ \E v \in CellVals : cells' = Store(v + 1)
    /\ Advance(position)
    /\ UNCHANGED << active_cell, loops, input, output >>

\* any other character: no case of the switch, only position++
ExecOther ==
    /\ Advance(position)
    /\ UNCHANGED << active_cell, cells, loops, input, output >>

\* operator<< of a non-negative integer: its decimal digits as characters
RECURSIVE Digits(_)
Digits(n) == IF n < 10 THEN << 48 + n >> ELSE Digits(n \div 10) \o << 48 + (n % 10) >>

\* operator<< of an int or a size_t
Decimal(x) == IF x < 0 THEN << 45 >> \o Digits(0 - x) ELSE Digits(x)

\* "Debug:\n"
DebugText == << 68, 101, 98, 117, 103, 58, 10 >>

\* "Cell\tVal\tChar\n"
TableHead == << 67, 101, 108, 108, 9, 86, 97, 108, 9, 67, 104, 97, 114, 10 >>

\* the lines  i << ":\t" << cells[i] << "\t'" << (char)cells[i] << "'\n"  of
\* print() for the cells from index i on
RECURSIVE TableRows(_, _)
TableRows(c, i) ==
    IF i >= Len(c) THEN << >>
    ELSE Decimal(i) \o << 58, 9 >> \o Decimal(c[i + 1])
            \o << 9, 39, ByteOf(c[i + 1]), 39, 10 >> \o TableRows(c, i + 1)

\* what print() writes to std::cout: the head, the rows and std::endl
TableText(c) == TableHead \o TableRows(c, 0) \o << 10 >>

\* case '#' of qfmain.cpp: std::cout << "Debug:\n"; this->print();
ExecDebug ==
    /\ output' = output \o DebugText \o TableText(cells)
    /\ Advance(position)
    /\ UNCHANGED << active_cell, cells, loops, input >>

\* the character is a case label of the switch
IsCase(ch) == ch \in Instr \/ (engine = "cli" /\ ch = "#")

\* the step throws std::range_error: ',' with an empty input (quickfuck.hpp)
Throws(ch) == ch = "," /\ engine # "cli" /\ input = << >>

\* the step has undefined behaviour
Undefined(ch) ==
    \/ ~Fetchable
    \/ ch \in {"+", "-", ".", "]"} /\ ~Valid
    \/ ch = "," /\ ~Throws(ch) /\ ~Valid
    \/ ch = "]" /\ loops = << >>

\* the switch on ch, when nothing is thrown
Switch(ch) ==
    \/ ch = "+" /\ ExecPlus
    \/ ch = "-" /\ ExecMinus
    \/ ch = "<" /\ ExecLeft
    \/ ch = ">" /\ ExecRight
    \/ ch = "[" /\ ExecOpen
    \/ ch = "]" /\ ExecClose
    \/ ch = "." /\ ExecDot
    \/ ch = "," /\ (ExecComma \/ ExecCommaStdin)
    \/ ch = "#" /\ engine = "cli" /\ ExecDebug
    \/ ~IsCase(ch) /\ ExecOther

\* Exec with the throw after position++ instead of before any change
ExecThrowsLate(r) ==
    \E ch \in Fetch :
        \/ /\ r = "ok"
           /\ ~Throws(ch)
           /\ Switch(ch)
        \/ /\ r = "InputExhausted"
           /\ Throws(ch)
           /\ Advance(position)
           /\ UNCHANGED << active_cell, cells, loops, input, output >>
        \/ /\ r = "crashed"
           /\ ~Throws(ch)
           /\ Undefined(ch)
           /\ UNCHANGED engineState

\* one execution of step() ending as r
Exec(r) ==
    \E ch \in Fetch :
        \/ /\ r = "ok"
           /\ ~Throws(ch)
           /\ Switch(ch)
        \/ /\ r = "InputExhausted"
           /\ Throws(ch)
           /\ UNCHANGED engineState
        \/ /\ r = "crashed"
           /\ ~Throws(ch)
           /\ Undefined(ch)
           /\ UNCHANGED engineState

Outcomes == {"ok", "InputExhausted", "crashed"}

\* the step about to be executed has undefined behaviour
StepUndefined == \E ch \in Fetch : ~Throws(ch) /\ Undefined(ch)

-----------------------------------------------------------------------------
(* The engine after construction, and the calls of the host.               *)

Engines == {"dynamic", "performance", "cli"}

\* no first run recorded yet / the first call was not a run
NoRef == [state |-> "none", arg |-> << >>, out |-> << >>, tape |-> << >>, res |-> "ok"]
VoidRef == [NoRef EXCEPT !.state = "void"]

\* no second engine
NoTwin ==
    [ on |-> FALSE, size |-> 0, position |-> 0, active_cell |-> 0, cells |-> << >>,
      loops |-> << >>, input |-> << >>, output |-> << >>, mode |-> "idle",
      result |-> "ok", defined |-> TRUE ]

\* The constructors: the source is stored, active_cell is 0 by its default
\* member initialiser, the bounded tape is allocated and zeroed, the growable
\* tape is an empty vector, and position is left uninitialised (any value:
\* the model draws it from the start, the end and beyond the end of the source).
Indeterminate(c) == {0, Len(c), Len(c) + MaxOver}

\* (The bounded engine's cells are unsigned char and strings are kept as
\* bytes, so the signedness of plain char reaches nothing of its state: it is
\* drawn for the engines with char or int cells only.)
Constructed(E, P, W) ==
    /\ engine \in E
    /\ charSigned \in (IF engine = "performance" THEN {FALSE} ELSE BOOLEAN)
    /\ size \in (IF engine = "performance" THEN W ELSE {0})
    /\ code \in P
    /\ position \in Indeterminate(code)
    /\ active_cell = 0
    /\ cells = Zeros(size)
    /\ loops = << >>
    /\ input = << >>
    /\ output = << >>
    /\ mode = "idle"
    /\ lastOp = "construct"
    /\ result = "ok"
    /\ arg = << >>
    /\ maxPtr = 0
    /\ wasReset = FALSE
    /\ ref = NoRef

Init == Constructed(Engines, Programs, 1..MaxWidth) /\ twin = NoTwin

\* active_cell after reset(): only the bounded engine assigns it
ResetPointer == IF engine = "performance" THEN 0 ELSE active_cell

\* the tape after reset(): cells = { 0 } / a fresh zeroed allocation of size bytes
ResetTape == IF engine = "performance" THEN Zeros(size) ELSE << 0 >>

\* the stack after reset(): no reset() touches loops
ResetLoops == loops

\* reset() of the library engines
ResetState ==
    /\ position' = 0
    /\ active_cell' = ResetPointer
    /\ cells' = ResetTape
    /\ loops' = ResetLoops
    /\ output' = << >>
    /\ input' = << >>
    /\ maxPtr' = ResetPointer
    /\ wasReset' = TRUE

\* a call other than interpret made first: no first run to refer to
RefAfterCall == IF ref.state = "none" THEN VoidRef ELSE ref

\* the first run's record once it has ended as r in the primed state
RefAfterRun(r) ==
    IF ref.state = "pending"
    THEN [state |-> "done", arg |-> arg, out |-> output', tape |-> cells', res |-> r]
    ELSE ref

\* a first run with undefined behaviour in it is no reference
RefTainted == IF ref.state = "pending" THEN VoidRef ELSE ref

Library == engine \in {"dynamic", "performance"}

\* reset() on this engine
ResetCall ==
    /\ mode = "idle" /\ Library
    /\ ResetState
    /\ lastOp' = "reset"
    /\ ref' = RefAfterCall
    /\ UNCHANGED << engine, charSigned, size, code, mode, result, arg >>

\* host: reset()
Reset == ResetCall /\ UNCHANGED twin

\* setInput(s) on this engine
SetInputCall ==
    /\ mode = "idle" /\ Library
    /\ \E s \in Strings : input' = s
    /\ lastOp' = "setInput"
    /\ ref' = RefAfterCall
    /\ UNCHANGED << engine, charSigned, size, code, position, active_cell, cells,
                    loops, output, mode, result, arg, maxPtr, wasReset >>

\* host: setInput(s)
SetInput == SetInputCall /\ UNCHANGED twin

\* addInput(s) on this engine
AddInputCall ==
    /\ mode = "idle" /\ Library
    /\ \E s \in Strings \ {<< >>} :
          /\ Len(input) + Len(s) <= MaxInput
          /\ input' = input \o s
    /\ lastOp' = "addInput"
    /\ ref' = RefAfterCall
    /\ UNCHANGED << engine, charSigned, size, code, position, active_cell, cells,
                    loops, output, mode, result, arg, maxPtr, wasReset >>

\* host: addInput(s)
AddInput == AddInputCall /\ UNCHANGED twin

\* step() on this engine
StepCall ==
    /\ mode = "idle" /\ Library
    /\ position <= Len(code) + MaxOver
    /\ \E r \in Outcomes :
          /\ Exec(r)
          /\ result' = r
          /\ mode' = IF r = "crashed" THEN "crashed" ELSE "idle"
    /\ maxPtr' = Max(maxPtr, active_cell')
    /\ lastOp' = "step"
    /\ ref' = RefAfterCall
    /\ UNCHANGED << engine, charSigned, size, code, arg, wasReset >>

\* host: step()
Step == StepCall /\ UNCHANGED twin

\* the first run on a just-constructed engine is the one later runs are compared with
RefAtRun == IF lastOp = "construct" THEN [NoRef EXCEPT !.state = "pending"] ELSE ref

\* host: interpret(): reset(), then the loop
Interpret ==
    /\ mode = "idle" /\ Library
    /\ ResetState
    /\ mode' = "running"
    /\ result' = "running"
    /\ lastOp' = "interpret"
    /\ arg' = << >>
    /\ ref' = RefAtRun
    /\ UNCHANGED << twin, engine, charSigned, size, code >>

\* host: interpret(in): input = in, then reset(), then the loop
InterpretIn ==
    /\ mode = "idle" /\ Library
    /\ \E in \in Strings \ {<< >>} : arg' = in
    /\ ResetState
    /\ mode' = "running"
    /\ result' = "running"
    /\ lastOp' = "interpret_in"
    /\ ref' = RefAtRun
    /\ UNCHANGED << twin, engine, charSigned, size, code >>

\* main() of qfmain.cpp: interpret() once on the engine it constructed;
\* position = 0 and cells = { 0 }, then the loop
CliInterpret ==
    /\ mode = "idle" /\ engine = "cli" /\ lastOp = "construct"
    /\ position' = 0
    /\ cells' = << 0 >>
    /\ maxPtr' = active_cell
    /\ wasReset' = TRUE
    /\ mode' = "running"
    /\ result' = "running"
    /\ lastOp' = "interpret"
    /\ UNCHANGED << twin, engine, charSigned, size, code, active_cell, loops, input,
                    output, arg, ref >>

\* one turn of the loop of interpret(): while (position < code.length()) step()
RunStep ==
    /\ mode = "running"
    /\ position < Len(code)
    /\ \E r \in Outcomes :
          /\ Exec(r)
          /\ result' = IF r = "ok" THEN "running" ELSE r
          /\ mode' = IF r = "ok" THEN "running"
                     ELSE IF r = "crashed" THEN "crashed" ELSE "idle"
          /\ ref' = IF StepUndefined THEN RefTainted
                    ELSE IF r = "ok" THEN ref ELSE RefAfterRun(r)
          /\ arg' = IF r = "ok" THEN arg ELSE << >>
    /\ maxPtr' = Max(maxPtr, active_cell')
    /\ UNCHANGED << twin, engine, charSigned, size, code, lastOp, wasReset >>

\* the loop ends: interpret() returns output
RunReturn ==
    /\ mode = "running"
    /\ position >= Len(code)
    /\ mode' = "idle"
    /\ result' = "ok"
    /\ arg' = << >>
    /\ UNCHANGED << twin, engine, charSigned, size, code, position, active_cell, cells,
                    loops, input, output, lastOp, maxPtr, wasReset >>
    /\ ref' = RefAfterRun("ok")

Next ==
    \/ Reset
    \/ SetInput
    \/ AddInput
    \/ Step
    \/ Interpret
    \/ InterpretIn
    \/ CliInterpret
    \/ RunStep
    \/ RunReturn

Spec == Init /\ [][Next]_vars

-----------------------------------------------------------------------------
(* Runs to completion of the clear loop: n times '+', then "[-]", for      *)
(* every n a cell can count, on the library engines; and the same after an *)
(* open bracket that is never closed, so that the loop index is not empty  *)
(* when "[-]" is reached.                                                  *)

Repeat(ch, n) == [i \in 1..n |-> ch]

ClearLoop == << "[", "-", "]" >>

PlainPrograms == { Repeat("+", n) \o ClearLoop : n \in 0..(CellMod - 1) }

DanglingPrograms == { << "[" >> \o Repeat("+", n) \o ClearLoop : n \in {1, CellMod - 1} }

LoopPrograms == PlainPrograms \cup DanglingPrograms

LoopInit == Constructed({"dynamic", "performance"}, LoopPrograms, {1}) /\ twin = NoTwin

\* interpret() as the first call made on the engine
FirstInterpret == lastOp = "construct" /\ Interpret

LoopNext ==
    \/ FirstInterpret
    \/ RunStep
    \/ RunReturn

\* interpret() is a synchronous loop: once called it keeps stepping until the
\* cursor leaves the source, and then returns
SpecLoop == LoopInit /\ [][LoopNext]_vars /\ WF_vars(RunStep) /\ WF_vars(RunReturn)

-----------------------------------------------------------------------------
(* Sources without instructions: the host's calls on sources made of 'a'   *)
(* and '#', characters that are none of the eight instructions.            *)

OtherChars == {"a", "#"}

NoopPrograms == SeqsUpTo(OtherChars, MaxSrc)

NoopInit == Constructed(Engines, NoopPrograms, 1..MaxWidth) /\ twin = NoTwin

\* every call but setInput and addInput: no source here reads input
NoopNext ==
    \/ Reset
    \/ Step
    \/ Interpret
    \/ InterpretIn
    \/ CliInterpret
    \/ RunStep
    \/ RunReturn

SpecNoop == NoopInit /\ [][NoopNext]_vars

-----------------------------------------------------------------------------
(* Sources that leave brackets open: a run as the first call made on the   *)
(* engine, of the sources of '[', '+' and '.' that hold a '['.              *)

\* how many of the characters of c are ch
Count(c, ch) == Cardinality({ i \in 1..Len(c) : c[i] = ch })

OpenPrograms ==
    { c \in SeqsUpTo({"[", "+", "."}, MaxOpen) : Count(c, "[") \in 1..MaxLoops }

OpenInit == Constructed({"dynamic", "performance"}, OpenPrograms, {1}) /\ twin = NoTwin

\* interpret(in) as the first call made on the engine
FirstInterpretIn == lastOp = "construct" /\ InterpretIn

OpenNext ==
    \/ FirstInterpret
    \/ FirstInterpretIn
    \/ RunStep
    \/ RunReturn

SpecOpen == OpenInit /\ [][OpenNext]_vars /\ WF_vars(RunStep) /\ WF_vars(RunReturn)

-----------------------------------------------------------------------------
(* The growable tape: a run as the first call made on a growable engine,   *)
(* of ">+" repeated and of the short sources of '>', '<' and '+'.          *)

\* ">+" repeated n times
RightPlus(n) == [i \in 1..(2 * n) |-> IF i % 2 = 1 THEN ">" ELSE "+"]

GrowPrograms ==
    { RightPlus(n) : n \in 0..MaxCell } \cup SeqsUpTo({">", "<", "+"}, MaxGrow)

GrowInit == Constructed({"dynamic", "cli"}, GrowPrograms, {1}) /\ twin = NoTwin

GrowNext ==
    \/ FirstInterpret
    \/ CliInterpret
    \/ RunStep
    \/ RunReturn

SpecGrow == GrowInit /\ [][GrowNext]_vars /\ WF_vars(RunStep) /\ WF_vars(RunReturn)

-----------------------------------------------------------------------------
(* Writing: a run as the first call made on the engine, of n '+' and a '.' *)
(* for every n in 0..255, and of the short sources of '+', '-', '>', '.'.  *)

\* n times '+', then '.'
PlusDot(n) == Repeat("+", n) \o << "." >>

DotPrograms ==
    { PlusDot(n) : n \in 0..(CellMod - 1) } \cup SeqsUpTo({"+", "-", ">", "."}, MaxDot)

DotInit == Constructed({"dynamic", "performance"}, DotPrograms, {MaxWidth}) /\ twin = NoTwin

DotNext ==
    \/ FirstInterpret
    \/ RunStep
    \/ RunReturn

SpecDot == DotInit /\ [][DotNext]_vars /\ WF_vars(RunStep) /\ WF_vars(RunReturn)

-----------------------------------------------------------------------------
(* Loops: a run as the first call made on the engine, of every source of   *)
(* '[', ']', '+', '-' with balanced brackets up to a length, and of a      *)
(* source with a loop inside a loop that moves the pointer.                *)

\* '[' less ']' among the characters i..j of c (counted from 1)
Balance(c, i, j) ==
    Cardinality({ k \in i..j : c[k] = "[" }) - Cardinality({ k \in i..j : c[k] = "]" })

\* every ']' of c closes a '[' before it and no '[' is left open
Balanced(c) ==
    /\ \A j \in 1..Len(c) : Balance(c, 1, j) >= 0
    /\ Balance(c, 1, Len(c)) = 0

\* the deepest nesting of brackets in c
Nesting(c) ==
    CHOOSE d \in 0..Len(c) :
        /\ \A j \in 1..Len(c) : Balance(c, 1, j) <= d
        /\ d = 0 \/ \E j \in 1..Len(c) : Balance(c, 1, j) = d

\* "++[>++[-]<-]": the outer loop runs twice, the inner loop twice each time
NestedClear == << "+", "+", "[", ">", "+", "+", "[", "-", "]", "<", "-", "]" >>

NestPrograms ==
    { c \in SeqsUpTo({"[", "]", "+", "-"}, MaxNest) :
          Balanced(c) /\ Nesting(c) \in 1..MaxLoops }
      \cup {NestedClear}

NestInit == Constructed({"dynamic", "performance"}, NestPrograms, {MaxWidth}) /\ twin = NoTwin

NestNext ==
    \/ FirstInterpret
    \/ RunStep
    \/ RunReturn

SpecNest == NestInit /\ [][NestNext]_vars /\ WF_vars(RunStep) /\ WF_vars(RunReturn)

-----------------------------------------------------------------------------
(* Two engines side by side: a DynamicInterpreter (the variables of the    *)
(* engine) and a PerformanceInterpreter (twin) constructed on the same     *)
(* source, reset, and then handed the same calls, while the pointer stays  *)
(* in 0..N-1.                                                              *)

PairPrograms ==
    Programs \cup { << "+" >> \o ClearLoop, << "," >> \o ClearLoop,
                    << "-", "[", "+", "]" >>, << ",", ">", ",", "." >> }

\* PerformanceInterpreter(s, n): bytes zeroed, position uninitialised
TwinConstructed ==
    { [NoTwin EXCEPT !.on = TRUE, !.size = n, !.cells = Zeros(n), !.position = p] :
          n \in 1..MaxWidth, p \in Indeterminate(code) }

PairInit == Constructed({"dynamic"}, PairPrograms, {0}) /\ twin \in TwinConstructed

\* PerformanceInterpreter::reset on the record t
TwinReset(t) ==
    [t EXCEPT !.position = 0, !.active_cell = 0, !.cells = Zeros(t.size),
              !.output = << >>, !.input = << >>]

\* t.active_cell indexes a byte of t's tape
TwinValid(t) == t.active_cell >= 0 /\ t.active_cell < Len(t.cells)

\* what reading bytes[active_cell] may yield
TwinVals(t) == IF TwinValid(t) THEN {t.cells[t.active_cell + 1]} ELSE Garbage

\* the tape after bytes[active_cell] = v
TwinStore(t, v) ==
    IF TwinValid(t) THEN [t.cells EXCEPT ![t.active_cell + 1] = ToUChar(v)] ELSE t.cells

\* position++ at the end of the switch
TwinAdvance(t) == [t EXCEPT !.position = @ + 1]

\* the switch of PerformanceInterpreter::step on the character ch, when
\* nothing is thrown: the records it may leave
TwinSwitch(t, ch) ==
    IF ch = "+" THEN { TwinAdvance([t EXCEPT !.cells = TwinStore(t, v + 1)]) : v \in TwinVals(t) }
    ELSE IF ch = "-" THEN { TwinAdvance([t EXCEPT !.cells = TwinStore(t, v - 1)]) : v \in TwinVals(t) }
    ELSE IF ch = "<" THEN { TwinAdvance([t EXCEPT !.active_cell = @ - 1]) }
    ELSE IF ch = ">" THEN { TwinAdvance([t EXCEPT !.active_cell = @ + 1]) }
    ELSE IF ch = "[" THEN { TwinAdvance([t EXCEPT !.loops = Append(@, t.position)]) }
    ELSE IF ch = "]" THEN
        UNION { IF v = 0
                THEN { TwinAdvance([t EXCEPT !.loops = IF @ = << >> THEN @
                                                       ELSE SubSeq(@, 1, Len(@) - 1)]) }
                ELSE IF t.loops = << >>
                     THEN { TwinAdvance([t EXCEPT !.position = p]) : p \in GarbageCursors }
                     ELSE { TwinAdvance([t EXCEPT !.position = t.loops[Len(t.loops)]]) }
              : v \in TwinVals(t) }
    ELSE IF ch = "." THEN { TwinAdvance([t EXCEPT !.output = Append(@, ByteOf(v))]) : v \in TwinVals(t) }
    ELSE IF ch = "," THEN { TwinAdvance([t EXCEPT !.cells = TwinStore(t, CharValue(Head(t.input))),
                                                  !.input = Tail(@)]) }
    ELSE { TwinAdvance(t) }

\* the step on t throws std::range_error
TwinThrows(t, ch) == ch = "," /\ t.input = << >>

\* the step on t has undefined behaviour
TwinUndefined(t, ch) ==
    \/ ch \in {"+", "-", ".", "]"} /\ ~TwinValid(t)
    \/ ch = "," /\ ~TwinThrows(t, ch) /\ ~TwinValid(t)
    \/ ch = "]" /\ t.loops = << >>

\* PerformanceInterpreter::step on t, the cursor on the character ch
TwinStep(t, ch) ==
    IF TwinThrows(t, ch) THEN { [t EXCEPT !.result = "InputExhausted"] }
    ELSE { [n EXCEPT !.result = "ok"] : n \in TwinSwitch(t, ch) }
         \cup (IF TwinUndefined(t, ch)
                THEN { [t EXCEPT !.result = "crashed", !.mode = "crashed"] }
                ELSE { })

\* both cursors are on a character of the source
PairInSource ==
    /\ position >= 0 /\ position < Len(code)
    /\ twin.position >= 0 /\ twin.position < Len(code)

\* the step of neither engine tries to move the pointer left of 0 or to N
\* or beyond, N the width of the bounded tape
PairInRange ==
    /\ code[position + 1] = "<" => active_cell > 0
    /\ code[position + 1] = ">" => active_cell + 1 < twin.size
    /\ code[twin.position + 1] = "<" => twin.active_cell > 0
    /\ code[twin.position + 1] = ">" => twin.active_cell + 1 < twin.size

\* host: reset() on both engines, just constructed
PairReset ==
    /\ lastOp = "construct"
    /\ ResetCall
    /\ twin' = TwinReset(twin)

\* host: setInput(s) on both engines
PairSetInput ==
    /\ wasReset /\ twin.mode = "idle"
    /\ SetInputCall
    /\ twin' = [twin EXCEPT !.input = input']

\* host: addInput(s) on both engines
PairAddInput ==
    /\ wasReset /\ twin.mode = "idle"
    /\ AddInputCall
    /\ twin' = [twin EXCEPT !.input = @ \o SubSeq(input', Len(input) + 1, Len(input'))]

\* host: step() on both engines, which live in one process: undefined
\* behaviour in either kills both or neither
PairStep ==
    /\ wasReset /\ twin.mode = "idle"
    /\ PairInSource
    /\ PairInRange
    /\ StepCall
    /\ \E n \in TwinStep(twin, code[twin.position + 1]) :
          /\ (n.mode = "crashed") = (mode' = "crashed")
          /\ twin' = [n EXCEPT !.defined = /\ @
                                           /\ ~StepUndefined
                                           /\ ~TwinUndefined(twin, code[twin.position + 1])]

PairNext ==
    \/ PairReset
    \/ PairSetInput
    \/ PairAddInput
    \/ PairStep

SpecPair == PairInit /\ [][PairNext]_vars

-----------------------------------------------------------------------------
(* Reading: every host call, on sources that read more than once.          *)

InputPrograms == { << ",", "," >>, << ",", ">", "," >>, << ",", ",", "." >> }

InputInit == Constructed({"dynamic", "performance"}, InputPrograms, 1..MaxWidth) /\ twin = NoTwin

\* the calls of the library engines; a run of these sources never returns
\* normally, reset() having emptied the input before the first ','
InputNext ==
    \/ Reset
    \/ SetInput
    \/ AddInput
    \/ Step
    \/ Interpret
    \/ InterpretIn
    \/ RunStep

SpecInput == InputInit /\ [][InputNext]_vars

-----------------------------------------------------------------------------
(* The claims.                                                             *)

\* (The claims are stated of engines on which reset() has run, by itself or
\* in interpret: position is uninitialised until then.)

\* the transition is one execution of step(): the host's, or a turn of the
\* loop of interpret()
StepTaken ==
    \/ mode = "idle" /\ lastOp' = "step"
    \/ mode = "running" /\ position < Len(code)

\* the cursor is on the instruction ch of the source
AtChar(ch) == position >= 0 /\ position < Len(code) /\ code[position + 1] = ch

\* the transition ends a call of interpret
RunEnds == mode = "running" /\ mode' # "running"

\* a call of interpret was the last call, and it is over
Returned == mode = "idle" /\ lastOp \in {"interpret", "interpret_in"} /\ result = "ok"

\* C1: interpret(in) on the source ",." with a one-byte in ends normally with
\* output equal to in and the input buffer empty.
C1_InterpretSeedsInput ==
    [][ (RunEnds /\ Library /\ code = << ",", "." >> /\ Len(arg) = 1)
        => (result' = "ok" /\ output' = arg /\ input' = << >>) ]_vars

\* C2: after reset() from any reachable state the cursor and the cell pointer
\* are 0, the loop index and the output are empty, the tape is all zero (one
\* zero cell for the growable engine), and the source is the one loaded.
C2_ResetRestoresInitialState ==
    [][ (mode = "idle" /\ wasReset /\ lastOp' = "reset")
        => /\ position' = 0
           /\ active_cell' = 0
           /\ loops' = << >>
           /\ output' = << >>
           /\ cells' = (IF engine = "performance" THEN Zeros(size) ELSE << 0 >>)
           /\ code' = code ]_vars

\* C3: a step that executes ']' while the loop index is empty ends in an
\* UnbalancedLoop failure, whatever the current cell holds.
C3_CloseOnEmptyIndexFails ==
    [][ (StepTaken /\ Library /\ wasReset /\ AtChar("]") /\ loops = << >>)
        => result' = "UnbalancedLoop" ]_vars

\* C4: a step that executes ',' with an empty input buffer fails with
\* InputExhausted and changes nothing of the engine; and once the host has
\* added input after such a failure, the repeated step executes the same ','
\* and stores the first added byte in the current cell (the cell the pointer
\* indexes: that the pointer is an index of the tape is C6 and C16).
C4_InputExhaustedIsRetryable ==
    [][ (StepTaken /\ Library /\ wasReset /\ AtChar(","))
        => IF input = << >>
           THEN result' = "InputExhausted" /\ UNCHANGED engineState
           ELSE (result = "InputExhausted" /\ lastOp \in {"addInput", "setInput"} /\ Valid)
                => /\ result' = "ok"
                   /\ position' = position + 1
                   /\ input' = Tail(input)
                   /\ ByteOf(cells'[active_cell + 1]) = Head(input) ]_vars

\* C4's case: the step on ',' has failed on an engine that was reset, the
\* cursor is still on the ',', and the host has added a byte since
C4_Witness ==
    /\ mode = "idle" /\ Library /\ wasReset
    /\ result = "InputExhausted"
    /\ lastOp = "addInput"
    /\ input = << 65 >>
    /\ AtChar(",")
    /\ Valid

\* C5: in every reachable state of every engine every cell holds a value
\* in 0..255.
C5_CellsAreBytes == \A i \in 1..Len(cells) : cells[i] \in 0..(CellMod - 1)

\* C6: in every reachable state of the bounded engine of width N the cell
\* pointer is in [0, N).
C6_BoundedPointerInRange ==
    (engine = "performance" /\ wasReset) => (active_cell >= 0 /\ active_cell < size)

\* C7: during and after any run of the growable engine, first or later, the
\* tape length is the largest pointer index reached in that run, plus one
\* (stated of instances whose first call was interpret).
C7_TapeLengthIsMaxPointerPlusOne ==
    (engine = "dynamic" /\ lastOp \in {"interpret", "interpret_in"}
                        /\ ref.state \in {"pending", "done"})
        => Len(cells) = maxPtr + 1

\* C8: "[-]" run on a zero cell is a zero-iteration loop: the cell never
\* takes a nonzero value in any state of the run.
C8_ZeroCellLoopSkipsBody ==
    (code = ClearLoop /\ lastOp = "interpret" /\ Valid)
        => cells[active_cell + 1] = 0

\* the open brackets of the source before its final "[-]": each is executed
\* once, and none is closed
OpenBefore == Cardinality({ i \in 1..(Len(code) - Len(ClearLoop)) : code[i] = "[" })

\* the run is about to execute the '[' of "[-]" with a current cell holding
\* one of 1..255
AtClearLoop ==
    /\ mode = "running"
    /\ position = Len(code) - Len(ClearLoop)
    /\ Valid
    /\ ByteOf(cells[active_cell + 1]) \in 1..(CellMod - 1)

\* the run has returned with the cursor at the end of the source, the current
\* cell 0 and the loop index as deep as it was before the '['
ClearLoopDone ==
    /\ Returned
    /\ position = Len(code)
    /\ Valid
    /\ cells[active_cell + 1] = 0
    /\ Len(loops) = OpenBefore

\* C9: for every value 1..255 of the current cell, a run to completion that
\* reaches "[-]" with that value terminates, with the cell 0, the loop index
\* at the depth it had before the '[' and the cursor at the end of the source.
C9_ClearLoopTerminates ==
    /\ [](AtClearLoop => Len(loops) = OpenBefore)
    /\ []((mode = "idle" /\ lastOp = "interpret") => ClearLoopDone)
    /\ [](AtClearLoop => <>ClearLoopDone)

\* C9's case: the run of '[', 255 times '+' and "[-]" has returned, the
\* loop index one deep as before the loop
C9_Witness ==
    /\ Len(code) = 1 + (CellMod - 1) + Len(ClearLoop)
    /\ OpenBefore = 1
    /\ ClearLoopDone

\* C10: a run made after an earlier run on the same instance ends as the run
\* of the same source and input on a freshly constructed engine did: same
\* outcome, same output, same final tape.
C10_RerunEqualsFreshRun ==
    [][ (RunEnds /\ Library /\ ref.state = "done" /\ arg = ref.arg)
        => (result' = ref.res /\ output' = ref.out /\ cells' = ref.tape) ]_vars

\* no character of the source c is one of the eight instructions
NoInstruction(c) == \A i \in 1..Len(c) : c[i] \notin Instr

\* no character of the source c has a case in the engine's switch
NoCase(c) == \A i \in 1..Len(c) : ~IsCase(c[i])

\* the cursor is on a character of the source
InSource == position >= 0 /\ position < Len(code)

\* the step leaves everything but the cursor alone, and advances it by one
OnlyAdvances ==
    /\ position' = position + 1
    /\ UNCHANGED << active_cell, cells, loops, input, output >>

\* the state a finished run of a source without effect is in: the cursor at
\* the end after one step per character, nothing written, and tape, pointer
\* and loop index as reset() and the constructor set them
NoopRunDone ==
    /\ position = Len(code)
    /\ output = << >>
    /\ cells = ResetTape
    /\ active_cell = 0
    /\ loops = << >>

\* C11 as stated: for every source made only of characters other than the
\* eight instructions, each step only advances the cursor by one, and a run
\* ends with the cursor at len(source), empty output, and tape, pointer and
\* loop index at their initial values.
C11_NoInstructionNoEffect ==
    /\ [][ (StepTaken /\ InSource /\ NoInstruction(code)) => OnlyAdvances ]_vars
    /\ []((Returned /\ NoInstruction(code)) => NoopRunDone)

\* C11 (amended): the same for every source made only of characters that
\* are none of the eight instructions and, in the engine of the command-line
\* program, not '#' either: there '#' prints the debug table to the output.
C11_OtherCharactersOnlyAdvance ==
    /\ [][ (StepTaken /\ InSource /\ NoCase(code)) => OnlyAdvances ]_vars
    /\ []((Returned /\ NoCase(code)) => NoopRunDone)

\* C11's case: the run of "#a" on the growable library engine has returned
C11_Witness ==
    /\ Returned
    /\ engine = "dynamic"
    /\ code = << "#", "a" >>
    /\ position = Len(code)

\* the run has returned normally, the cursor at the end of the source and
\* every '[' of the source still in the loop index
OpenRunDone ==
    /\ Returned
    /\ position = Len(code)
    /\ Len(loops) = Count(code, "[")

\* C12: a run of a source that leaves open brackets unclosed terminates
\* normally: no step of it fails, and it returns with the loop index
\* non-empty; the run of "[" returns after one step with empty output.
C12_OpenBracketsEndNormally ==
    /\ [](mode = "running" => <>OpenRunDone)
    /\ [](mode # "crashed" /\ result \in {"ok", "running"})
    /\ []((Returned /\ code = << "[" >>)
            => (position = 1 /\ loops = << 0 >> /\ output = << >>))

\* C12's case: the run of "[" on the bounded engine has returned, its '['
\* still in the loop index
C12_Witness ==
    /\ OpenRunDone
    /\ engine = "performance"
    /\ code = << "[" >>
    /\ loops = << 0 >>

\* the tape and the pointer ">+" repeated n times ends with
RightPlusDone(n) ==
    /\ Len(cells) = n + 1
    /\ cells[1] = 0
    /\ \A i \in 2..(n + 1) : cells[i] = 1
    /\ active_cell = n

\* C13: on a fresh growable engine the run of ">+" repeated n times ends
\* with a tape of n+1 cells, cell 0 holding 0 and cells 1..n holding 1, and
\* the pointer at n; a '>' at the last index appends one zero cell, and a
\* '>' anywhere else appends none.
C13_GrowsByOnePerCrossing ==
    /\ [](mode = "running" => <>Returned)
    /\ []((Returned /\ code = RightPlus(Len(code) \div 2))
            => RightPlusDone(Len(code) \div 2))
    /\ [][ (StepTaken /\ AtChar(">"))
            => cells' = (IF active_cell = Len(cells) - 1
                         THEN Append(cells, 0) ELSE cells) ]_vars

\* C13's case: ">+>+>+>+>+" has run on the growable library engine
C13_Witness ==
    /\ Returned
    /\ engine = "dynamic"
    /\ code = RightPlus(5)
    /\ cells = << 0, 1, 1, 1, 1, 1 >>
    /\ active_cell = 5

\* (A claim about the current cell is a claim about the states in which the
\* pointer is an index of the tape; C6 and C16 are about the pointer.)

\* C14: '.' appends one byte, the current cell's value, to the end of the
\* output, advances the cursor and changes nothing else; and a run of n '+'
\* and a '.' on a fresh engine, n in 0..255, returns with the one byte n as
\* its output.
C14_DotAppendsCurrentCell ==
    /\ [][ (StepTaken /\ AtChar(".") /\ Valid)
            => /\ output' = Append(output, ByteOf(cells[active_cell + 1]))
               /\ position' = position + 1
               /\ UNCHANGED << active_cell, cells, loops, input >> ]_vars
    /\ [](mode = "running" => <>(mode = "idle"))
    /\ []((Returned /\ code = PlusDot(Len(code) - 1)) => output = << Len(code) - 1 >>)

\* C14's case: 200 '+' and a '.' have run on the growable engine where plain
\* char is signed: the cell holds -56 and the byte written is 200
C14_Witness ==
    /\ Returned
    /\ engine = "dynamic" /\ charSigned
    /\ code = PlusDot(200)
    /\ cells = << 200 - CellMod >>
    /\ output = << 200 >>

\* C15: a step on ']' with a non-empty loop index and a nonzero current
\* cell leaves the loop index as it is and puts the cursor one after the
\* top of the loop index, the instruction after the '['; with the current
\* cell 0 it pops the top and puts the cursor one after the ']'.
C15_CloseJumpsOrPops ==
    [][ (StepTaken /\ AtChar("]") /\ Valid /\ loops # << >>)
        => IF cells[active_cell + 1] # 0
           THEN /\ loops' = loops
                /\ position' = loops[Len(loops)] + 1
                /\ code[position'] = "["
           ELSE /\ loops' = SubSeq(loops, 1, Len(loops) - 1)
                /\ position' = position + 1 ]_vars

\* C15's case: in "++[>++[-]<-]" the inner ']' has jumped back once: the
\* cursor is on the '-' after the inner '[', both brackets in the loop index
C15_Witness ==
    /\ mode = "running"
    /\ code = NestedClear
    /\ position = 7
    /\ loops = << 2, 6 >>
    /\ active_cell = 1
    /\ cells = << 2, 1 >>

\* C16: in every reachable state of the growable engine the pointer is an
\* index of the tape, 0 <= pointer < tape length (stated of instances whose
\* first call was interpret: the tape of a just-constructed engine is empty,
\* so that no pointer is an index of it).
C16_GrowablePointerValid ==
    (engine = "dynamic" /\ ref.state \in {"pending", "done"})
        => (0 <= active_cell /\ active_cell < Len(cells))

\* the two engines are in the same state: cursor, pointer, loop index,
\* remaining input and output are equal, the growable tape is the front of
\* the bounded tape modulo 256, and the rest of the bounded tape is zero
PairAgrees ==
    /\ position = twin.position
    /\ active_cell = twin.active_cell
    /\ loops = twin.loops
    /\ input = twin.input
    /\ output = twin.output
    /\ Len(cells) <= Len(twin.cells)
    /\ \A i \in 1..Len(twin.cells) :
          twin.cells[i] = (IF i <= Len(cells) THEN cells[i] % CellMod ELSE 0)

\* C17: a growable and a bounded engine of width N, reset when fresh and
\* then stepped side by side on the same source and input, the pointer never
\* trying to leave 0..N-1, are in the same state after every step.
C17_EnginesAgree == (twin.on /\ wasReset /\ mode = "idle") => PairAgrees

\* the same as long as every step has had defined behaviour in both engines
AgreeWhereDefined == (twin.on /\ wasReset /\ twin.defined) => PairAgrees

\* the cursor of the ']' that closes the '[' at cursor i
MatchOf(i) == CHOOSE j \in i..(Len(code) - 1) :
                 /\ Balance(code, i + 1, j + 1) = 0
                 /\ \A k \in i..(j - 1) : Balance(code, i + 1, k + 1) > 0

\* the cursors of the open brackets that enclose cursor p: those before p
\* whose ']' is at p or after it
Enclosing(p) == { i \in 0..(p - 1) : code[i + 1] = "[" /\ MatchOf(i) >= p }

\* the loop index is the ascending sequence of the set S of cursors
HoldsExactly(S) ==
    /\ Len(loops) = Cardinality(S)
    /\ \A k \in 1..Len(loops) : loops[k] \in S
    /\ \A k \in 1..(Len(loops) - 1) : loops[k] < loops[k + 1]

\* C18: in every state of a run of a source with balanced brackets on a
\* fresh engine the loop index holds exactly the open brackets that enclose
\* the cursor, outermost first; it is never deeper than the source nests and
\* is empty when the run has returned; and every ']' on a nonzero cell puts
\* the cursor one after its own '['.
C18_LoopIndexIsEnclosingBrackets ==
    /\ []((lastOp = "interpret" /\ Balanced(code))
            => /\ HoldsExactly(Enclosing(position))
               /\ Len(loops) <= Nesting(code)
               /\ Returned => loops = << >>)
    /\ [][ (StepTaken /\ Balanced(code) /\ AtChar("]") /\ Valid
                      /\ cells[active_cell + 1] # 0)
            => /\ code[position'] = "["
               /\ MatchOf(position' - 1) = position ]_vars

\* C18's case: "++[>++[-]<-]" in the second turn of its outer loop, about
\* to execute the inner ']': both brackets in the loop index, outer first
C18_Witness ==
    /\ mode = "running"
    /\ code = NestedClear
    /\ position = 8
    /\ cells = << 1, 1 >>
    /\ loops = << 2, 6 >>
    /\ Enclosing(position) = {2, 6}

\* C19: a step of the host on ',' with input staged after a reset stores
\* the front byte of the input in the current cell, erases that one byte
\* from the front of the input, advances the cursor and leaves every other
\* cell, the pointer, the loop index and the output as they were; so the
\* bytes are read in the order in which they were staged.
C19_InputIsFifo ==
    [][ (StepTaken /\ Library /\ wasReset /\ AtChar(",") /\ input # << >> /\ Valid)
        => /\ result' = "ok"
           /\ ByteOf(cells'[active_cell + 1]) = Head(input)
           /\ Len(cells') = Len(cells)
           /\ \A i \in 1..Len(cells) : i # active_cell + 1 => cells'[i] = cells[i]
           /\ input' = Tail(input)
           /\ position' = position + 1
           /\ UNCHANGED << active_cell, loops, output >> ]_vars

\* C19's case: ",>," has been stepped to its end on the bounded engine with
\* the bytes 65, 200 staged: the first ',' read 65, the second 200
C19_Witness ==
    /\ mode = "idle" /\ lastOp = "step" /\ result = "ok"
    /\ engine = "performance"
    /\ code = << ",", ">", "," >>
    /\ position = Len(code)
    /\ cells = << 65, 200 >>
    /\ input = << >>

====
